---- MODULE Spec2Model ----
(***************************************************************************)
(* The falling-block engine of src/src/Tetris.ts (class Tetris), with the  *)
(* colour generator of src/src/Display.ts.                                 *)
(*                                                                         *)
(* Arrays are sequences, objects are records.  The grid is scaled down     *)
(* (the source plays on 10 x 20 with the spawn origin at column 4); the    *)
(* random draws of the generators are taken from bounded sets.  The render *)
(* snapshot `field` is written by game() and read by render() only, and is *)
(* left out.                                                               *)
(***************************************************************************)
EXTENDS Integers, Sequences, FiniteSets, TLC

\* ------------------------------------------------------------------ bounds

\* GRID_WIDTH, GRID_HEIGHT (the source sets 10 and 20), scaled.
GRID_WIDTH == 4
GRID_HEIGHT == 4
\* the x of INITIAL_TETROMINO_POSITION (the source sets 4 on a width of 10)
SpawnX == 1
\* RANDOM_FILL_COUNT (the source sets 5 on a width of 10)
RANDOM_FILL_COUNT == 2
\* piece types the random generator draws: the first NumTypes of TypeOrder
NumTypes == 2
\* colours Math.random selects in getNextRandomColor: the last NumColorDraws keys
NumColorDraws == 2
\* lock events explored
MaxLocks == 2
\* largest in-range value handed to the difficulty setter
MaxDifficultyInput == 1
\* the run with save and load: piece types drawn, lock events explored
NumPersistTypes == 1
MaxPersistLocks == 1
\* cells a drawn field holds in the row above the grid
MaxAboveCells == 1
\* columns a non-empty row of a drawn field lacks
MaxRowGaps == 2
\* cells of a field on which the moves are taken one by one
MaxMoveCells == 2
\* pieces drawn and lock events explored in the runs that save and load with
\* several pieces
NumRoundTypes == 3
MaxRoundLocks == 1
\* lock events explored in the games that stack pieces up to the spawn row
MaxTopLocks == 3

\* --------------------------------------------------------------- constants

DEFAULT_COLOR == "White"
TIME_START == 300
TIME_END == 150
\* TIME_MOD_COEFF = 0.95, as the fraction TimeModNum / TimeModDen
TimeModNum == 19
TimeModDen == 20
DIFFICULTY_MAX == 10
NoColor == "undefined"
\* getNextRandomColor's local index outside a call
NoIndex == -1
\* localStorage without the item: getItem returns null
NoItem == <<>>

colorKeys == <<"Yellow", "Magenta", "Cian", "Lightgreen", "Orange", "White">>

ColorDraws == {colorKeys[i] : i \in (Len(colorKeys) - NumColorDraws + 1)..Len(colorKeys)}

INITIAL_TETROMINO_POSITION == [x |-> SpawnX, y |-> -1]

\* ---------------------------------------------------------- shape catalog

P(a, b) == [x |-> a, y |-> b]

TypeOrder == <<"I", "O", "T", "S", "Z", "L", "J">>

\* tetrominoes.ts: each type owns an ordered list of rotation states, each of
\* exactly 4 offsets from the origin.
TETROMINOES ==
  [t \in {TypeOrder[i] : i \in 1..Len(TypeOrder)} |->
     CASE t = "I" -> << <<P(-1,0), P(0,0), P(1,0), P(2,0)>>,
                        <<P(0,0), P(0,1), P(0,2), P(0,3)>> >>
       [] t = "O" -> << <<P(0,0), P(1,0), P(0,1), P(1,1)>> >>
       [] t = "T" -> << <<P(-1,0), P(0,0), P(1,0), P(0,1)>>,
                        <<P(0,0), P(-1,1), P(0,1), P(0,2)>>,
                        <<P(0,0), P(-1,1), P(0,1), P(1,1)>>,
                        <<P(0,0), P(0,1), P(1,1), P(0,2)>> >>
       [] t = "S" -> << <<P(0,0), P(1,0), P(-1,1), P(0,1)>>,
                        <<P(0,0), P(0,1), P(1,1), P(1,2)>> >>
       [] t = "Z" -> << <<P(-1,0), P(0,0), P(0,1), P(1,1)>>,
                        <<P(1,0), P(0,1), P(1,1), P(0,2)>> >>
       [] t = "L" -> << <<P(-1,0), P(0,0), P(1,0), P(-1,1)>>,
                        <<P(-1,0), P(0,0), P(0,1), P(0,2)>>,
                        <<P(1,0), P(-1,1), P(0,1), P(1,1)>>,
                        <<P(0,0), P(0,1), P(0,2), P(1,2)>> >>
       [] t = "J" -> << <<P(-1,0), P(0,0), P(1,0), P(1,1)>>,
                        <<P(0,0), P(0,1), P(-1,2), P(0,2)>>,
                        <<P(-1,0), P(-1,1), P(0,1), P(1,1)>>,
                        <<P(0,0), P(1,0), P(0,1), P(0,2)>> >>]

\* getNextTetromino(): the types the generator draws
TypeDraws == {TypeOrder[i] : i \in 1..NumTypes}

\* getNextTetrominoRotation(tetromino): the index of a fresh piece
FirstRotation == 0

\* getNextTetrominoRotation(tetromino, current); rotation indexes are 0-based
getNextTetrominoRotation(t, current) == (current + 1) % Len(TETROMINOES[t])

\* ------------------------------------------------------------------- state

VARIABLES
  filledField,                \* RenderPoint[]: the locked cells {x, y, color}
  currentTetromino,           \* the active piece's type
  currentTetrominoPosition,   \* {x, y}
  currentTetrominoRotation,   \* 0-based index into the type's rotation states
  currentColor,
  nextTetromino,
  nextColor,
  score,
  pause,
  isColorOn,
  difficulty,                 \* _difficulty
  gameOver,
  isLastMove,
  isFirstMove,
  prevRandomColor,            \* Display.ts module variable
  storage,                    \* localStorage[SAVE_AND_LOAD_KEY], NoItem when absent
  \* history, read by no operation
  locks,                      \* lock events since construction (bounds the run)
  lastLock,                   \* <<>>, or <<[field, cells, color, score]>>: the field, the
                              \* piece's cells and colour and the score at the last lock
                              \* event of this game
  pieceTicks,                 \* what the last logic tick did to the active piece since
                              \* it was generated: "none", "pulled" or "blocked"
  savedState,                 \* <<>>, or <<the piece, the next piece, the field and the
                              \* score as they were at the last save()>>
  \* the speed of the logic tick
  interval,                   \* mainGameLogicCallback.interval, in ms
  isSpeedChanging,
  \* the call of getNextRandomColor in progress
  index                       \* the index drawn by the loop, NoIndex outside a call

\* the engine's fields
engine == <<filledField, currentTetromino, currentTetrominoPosition,
            currentTetrominoRotation, currentColor, nextTetromino, nextColor,
            score, pause, isColorOn, difficulty, gameOver, isLastMove, isFirstMove>>

history == <<locks, lastLock, pieceTicks, savedState>>

\* the speed of the logic tick
timing == <<interval, isSpeedChanging>>

vars == <<engine, prevRandomColor, storage, history, timing, index>>

\* ------------------------------------------------------------ pure helpers

\* get currentTetrominoAbsoluteCoords, for any placement
AbsoluteCoords(t, r, p) ==
  [i \in 1..4 |-> [x |-> TETROMINOES[t][r + 1][i].x + p.x,
                   y |-> TETROMINOES[t][r + 1][i].y + p.y]]

currentTetrominoAbsoluteCoords ==
  AbsoluteCoords(currentTetromino, currentTetrominoRotation, currentTetrominoPosition)

\* this.filledField.some(({x: filledX, y: filledY}) => x === filledX && filledY === y)
Filled(f, x, y) == \E i \in DOMAIN f : f[i].x = x /\ f[i].y = y

checkCanPullTetromino(f, t, r, p) ==
  LET potential == AbsoluteCoords(t, r, [p EXCEPT !.y = @ + 1])
  IN ~ \E i \in 1..4 :
         potential[i].y >= GRID_HEIGHT \/ Filled(f, potential[i].x, potential[i].y)

\* checkCanStrafeTetromino without the search of filledField
checkCanStrafeTetrominoIgnoringField(f, t, r, p, dx) ==
  LET potential == AbsoluteCoords(t, r, [p EXCEPT !.x = @ + dx])
  IN IF dx = -1
     THEN ~ \E i \in 1..4 : potential[i].x < 0
     ELSE ~ \E i \in 1..4 : potential[i].x >= GRID_WIDTH

\* checkCanStrafeTetromino without the x >= GRID_WIDTH test of Direction.Right
checkCanStrafeTetrominoNoRightWall(f, t, r, p, dx) ==
  LET potential == AbsoluteCoords(t, r, [p EXCEPT !.x = @ + dx])
  IN IF dx = -1
     THEN ~ \E i \in 1..4 :
              potential[i].x < 0 \/ Filled(f, potential[i].x, potential[i].y)
     ELSE ~ \E i \in 1..4 : Filled(f, potential[i].x, potential[i].y)

checkCanStrafeTetromino(f, t, r, p, dx) ==
  LET potential == AbsoluteCoords(t, r, [p EXCEPT !.x = @ + dx])
  IN IF dx = -1
     THEN ~ \E i \in 1..4 :
              potential[i].x < 0 \/ Filled(f, potential[i].x, potential[i].y)
     ELSE ~ \E i \in 1..4 :
              potential[i].x >= GRID_WIDTH \/ Filled(f, potential[i].x, potential[i].y)

SeqMax(s) == CHOOSE m \in {s[i] : i \in DOMAIN s} : \A i \in DOMAIN s : s[i] <= m
SeqMin(s) == CHOOSE m \in {s[i] : i \in DOMAIN s} : \A i \in DOMAIN s : s[i] >= m

\* checkCanRotateTetromino with maxX compared against GRID_WIDTH - 1
checkCanRotateTetrominoNarrow(f, t, r, p) ==
  LET potential == AbsoluteCoords(t, getNextTetrominoRotation(t, r), p)
      xs == [i \in 1..4 |-> potential[i].x]
      ys == [i \in 1..4 |-> potential[i].y]
  IN /\ SeqMax(ys) < GRID_HEIGHT
     /\ SeqMin(xs) >= 0
     /\ SeqMax(xs) < GRID_WIDTH - 1
     /\ \A i \in 1..4 : ~ Filled(f, potential[i].x, potential[i].y)

checkCanRotateTetromino(f, t, r, p) ==
  LET potential == AbsoluteCoords(t, getNextTetrominoRotation(t, r), p)
      xs == [i \in 1..4 |-> potential[i].x]
      ys == [i \in 1..4 |-> potential[i].y]
  IN /\ SeqMax(ys) < GRID_HEIGHT
     /\ SeqMin(xs) >= 0
     /\ SeqMax(xs) < GRID_WIDTH
     /\ \A i \in 1..4 : ~ Filled(f, potential[i].x, potential[i].y)


\* pullFullTetromino's loop: while (checkCanPullTetromino()) pullTetromino()
\* a single pullTetromino in place of the loop
PullOnce(f, t, r, p) ==
  IF checkCanPullTetromino(f, t, r, p)
  THEN [p EXCEPT !.y = @ + 1]
  ELSE p

RECURSIVE PullWhilePossible(_, _, _, _)
PullWhilePossible(f, t, r, p) ==
  IF checkCanPullTetromino(f, t, r, p)
  THEN PullWhilePossible(f, t, r, [p EXCEPT !.y = @ + 1])
  ELSE p

\* saveTetromino with the colour tag left out of the appended cells
saveTetrominoUncoloured(f, t, r, p, color) ==
  f \o [i \in 1..4 |-> [x |-> AbsoluteCoords(t, r, p)[i].x,
                        y |-> AbsoluteCoords(t, r, p)[i].y,
                        color |-> DEFAULT_COLOR]]

\* saveTetromino: the field with the piece's absolute cells appended, each
\* tagged with the current colour
saveTetromino(f, t, r, p, color) ==
  f \o [i \in 1..4 |-> [x |-> AbsoluteCoords(t, r, p)[i].x,
                        y |-> AbsoluteCoords(t, r, p)[i].y,
                        color |-> color]]

\* this.filledField.filter(({y}) => y === row).length
FilledCellsAmount(f, row) == Cardinality({i \in DOMAIN f : f[i].y = row})

\* the map of lines 283-285 with its comparison turned round
RemoveRowShiftingBelow(f, row) ==
  LET kept == SelectSeq(f, LAMBDA c : c.y # row)
  IN [i \in DOMAIN kept |->
        IF kept[i].y < row THEN kept[i] ELSE [kept[i] EXCEPT !.y = @ + 1]]

\* lines 281-285: drop the cells of the row, then map the rest
RemoveRow(f, row) ==
  LET kept == SelectSeq(f, LAMBDA c : c.y # row)
  IN [i \in DOMAIN kept |->
        IF kept[i].y > row THEN kept[i] ELSE [kept[i] EXCEPT !.y = @ + 1]]

\* the for loop stepping over the row that follows a destroyed row
RECURSIVE DestroyFromSkipping(_, _, _)
DestroyFromSkipping(f, row, destroyedRows) ==
  IF row >= GRID_HEIGHT
  THEN [field |-> f, destroyedRows |-> destroyedRows]
  ELSE IF FilledCellsAmount(f, row) # GRID_WIDTH
       THEN DestroyFromSkipping(f, row + 1, destroyedRows)
       ELSE DestroyFromSkipping(RemoveRow(f, row), row + 2, destroyedRows + 1)

\* the for loop of destroyFilledRows over allY = 0..GRID_HEIGHT-1, from `row` on
RECURSIVE DestroyFrom(_, _, _)
DestroyFrom(f, row, destroyedRows) ==
  IF row >= GRID_HEIGHT
  THEN [field |-> f, destroyedRows |-> destroyedRows]
  ELSE IF FilledCellsAmount(f, row) # GRID_WIDTH
       THEN DestroyFrom(f, row + 1, destroyedRows)
       ELSE DestroyFrom(RemoveRow(f, row), row + 1, destroyedRows + 1)

\* addScore with case 4 missing from the switch
addScoreWithoutFour(s, destroyedRows) ==
  CASE destroyedRows = 1 -> s + 40
    [] destroyedRows = 2 -> s + 100
    [] destroyedRows = 3 -> s + 300
    [] OTHER -> s

\* addScore scoring every destroyed row as a single row
addScorePerRow(s, destroyedRows) ==
  IF destroyedRows \in 1..4 THEN s + 40 * destroyedRows ELSE s

\* addScore (lines 291-308): the score after destroyedRows rows were destroyed
addScore(s, destroyedRows) ==
  CASE destroyedRows = 1 -> s + 40
    [] destroyedRows = 2 -> s + 100
    [] destroyedRows = 3 -> s + 300
    [] destroyedRows = 4 -> s + 1200
    [] OTHER -> s

\* destroyFilledRows: the field and the score it leaves
destroyFilledRows(f, s) ==
  LET d == DestroyFrom(f, 0, 0)
  IN [field |-> d.field, score |-> addScore(s, d.destroyedRows),
      destroyedRows |-> d.destroyedRows]

\* getNextRandomColor: the colours one call can return after `prev`
NextRandomColors(prev) == {c \in ColorDraws : c # prev}

\* n successive calls of getNextRandomColor after `prev`: the possible results
RECURSIVE ColorRuns(_, _)
ColorRuns(prev, n) ==
  IF n = 0 THEN {<<>>}
  ELSE UNION {{<<c>> \o rest : rest \in ColorRuns(c, n - 1)} : c \in NextRandomColors(prev)}

LastColor(prev, run) == IF run = <<>> THEN prev ELSE run[Len(run)]


\* ------------------------------------------------------------- #fillRow

\* the state of #fillRow's while loop before its first iteration
FillRowStart == [generated |-> {}, current |-> -1, filledStreak |-> 0, filledAmount |-> 0]

\* one iteration of the while loop: the loop states it can leave
FillRowStep(s) ==
  IF s.filledAmount >= RANDOM_FILL_COUNT THEN {}
  ELSE LET cur == (s.current + 1) % GRID_WIDTH
       IN IF cur \in s.generated
          THEN {[s EXCEPT !.current = cur]}
          ELSE {[s EXCEPT !.current = cur, !.filledStreak = 0]}
               \cup (IF s.filledStreak < 2
                     THEN {[generated |-> s.generated \cup {cur}, current |-> cur,
                            filledStreak |-> s.filledStreak + 1,
                            filledAmount |-> s.filledAmount + 1]}
                     ELSE {})

RECURSIVE FillRowReach(_)
FillRowReach(S) ==
  LET N == S \cup UNION {FillRowStep(s) : s \in S}
  IN IF N = S THEN S ELSE FillRowReach(N)

\* the column sets `generated` can hold when the loop ends
FillRowColumns ==
  {s.generated : s \in {r \in FillRowReach({FillRowStart}) :
                          r.filledAmount >= RANDOM_FILL_COUNT}}

\* a set of columns in ascending order (generated.map(...).filter(...).map(...))
RECURSIVE Ascending(_)
Ascending(S) ==
  IF S = {} THEN <<>>
  ELSE LET m == CHOOSE a \in S : \A b \in S : a <= b
       IN <<m>> \o Ascending(S \ {m})

\* #fillRow(row) on field f with colour state prev: the results [field, prev]
fillRow(f, prev, row) ==
  {[field |-> f \o [i \in 1..Len(run) |->
                      [x |-> Ascending(cols)[i], y |-> row, color |-> run[i]]],
    prev |-> LastColor(prev, run)] :
     <<cols, run>> \in {cr \in FillRowColumns \X ColorRuns(prev, RANDOM_FILL_COUNT) : TRUE}}

\* A number that is an integer or an integer and a half (Number(input.value)
\* gives fractions as they are typed): [n, half] is n + 1/2 when half, n otherwise.
Whole(n) == [n |-> n, half |-> FALSE]

\* i < d, for an integer i and a number d
LessThanNumber(i, d) == i < d.n \/ (i = d.n /\ d.half)

\* #fillField from iteration i on: for (i; i < _difficulty; i++) #fillRow(GRID_HEIGHT - 1 - i)
RECURSIVE fillField(_, _, _, _)
fillField(f, prev, d, i) ==
  IF ~LessThanNumber(i, d) THEN {[field |-> f, prev |-> prev]}
  ELSE UNION {fillField(o.field, o.prev, d, i + 1) :
                o \in fillRow(f, prev, GRID_HEIGHT - 1 - i)}

\* set difficulty(value) clamping a number to the nearest end of the range
setDifficultyClamping(value) ==
  IF value.nan THEN Whole(0)
  ELSE IF value.n < 0 THEN Whole(0)
  ELSE IF ~(value.n < DIFFICULTY_MAX \/ (value.n = DIFFICULTY_MAX /\ ~value.half))
       THEN Whole(DIFFICULTY_MAX)
  ELSE [n |-> value.n, half |-> value.half]

\* set difficulty(value); value is [nan, n, half]: NaN, or the number [n, half].
\* value >= 0 iff n >= 0; value <= 10 iff n < 10, or n = 10 and no half more.
setDifficulty(value) ==
  LET isValidValue ==
        /\ ~value.nan
        /\ value.n >= 0
        /\ (value.n < DIFFICULTY_MAX \/ (value.n = DIFFICULTY_MAX /\ ~value.half))
  IN IF isValidValue THEN [n |-> value.n, half |-> value.half] ELSE Whole(0)

DifficultyInputs ==
  {[nan |-> TRUE, n |-> 0, half |-> FALSE]} \cup
  {[nan |-> FALSE, n |-> v, half |-> FALSE] :
     v \in {-1, DIFFICULTY_MAX + 1} \cup 0..MaxDifficultyInput}


\* ------------------------------------------------------------------- Init

\* Math.floor(TIME_START / TIME_MOD_COEFF) and isSpeedChanging = false
InitTiming ==
  /\ interval = (TIME_START * TimeModDen) \div TimeModNum
  /\ isSpeedChanging = FALSE

\* the state the field initialisers and the constructor leave (lines 51-75,
\* 102-103), the generator drawing its types from T
InitOf(T) ==
  /\ filledField = <<>>
  /\ currentTetromino \in T
  /\ currentTetrominoPosition = INITIAL_TETROMINO_POSITION
  /\ currentTetrominoRotation = FirstRotation
  /\ currentColor \in NextRandomColors(NoColor)
  /\ nextTetromino \in T
  /\ nextColor \in NextRandomColors(currentColor)
  /\ prevRandomColor = nextColor
  /\ score = 0
  /\ pause = FALSE
  /\ isColorOn = TRUE
  /\ difficulty = Whole(0)
  /\ gameOver = FALSE
  /\ isLastMove = FALSE
  /\ isFirstMove = TRUE
  /\ storage = NoItem
  /\ InitTiming
  /\ index = NoIndex
  /\ locks = 0
  /\ lastLock = <<>>
  /\ pieceTicks = "none"
  /\ savedState = <<>>

\* ---------------------------------------------------------------- actions

\* generateNextTetromino, called with the colour generator's state at prev and
\* getNextTetromino drawing from T
generateNextTetromino(prev, T) ==
  /\ currentTetrominoPosition' = INITIAL_TETROMINO_POSITION
  /\ currentTetromino' = nextTetromino
  /\ currentColor' = nextColor
  /\ nextTetromino' \in T
  /\ IF isColorOn
     THEN nextColor' \in NextRandomColors(prev) /\ prevRandomColor' = nextColor'
     ELSE nextColor' = DEFAULT_COLOR /\ prevRandomColor' = prev
  /\ currentTetrominoRotation' = FirstRotation

\* strafeTetromino without its check of this.pause
strafeTetrominoUnpaused(dx) ==
  IF ~checkCanStrafeTetromino(filledField, currentTetromino,
                              currentTetrominoRotation, currentTetrominoPosition, dx)
  THEN UNCHANGED vars
  ELSE /\ currentTetrominoPosition' = [currentTetrominoPosition EXCEPT !.x = @ + dx]
       /\ UNCHANGED <<filledField, currentTetromino, currentTetrominoRotation,
                      currentColor, nextTetromino, nextColor, score, pause, isColorOn,
                      difficulty, gameOver, isLastMove, isFirstMove, prevRandomColor,
                      storage, history, timing, index>>

\* strafeTetromino(direction); dx is -1 for Direction.Left, 1 for Direction.Right
strafeTetromino(dx) ==
  IF pause \/ ~checkCanStrafeTetromino(filledField, currentTetromino,
                   currentTetrominoRotation, currentTetrominoPosition, dx)
  THEN UNCHANGED vars
  ELSE /\ currentTetrominoPosition' = [currentTetrominoPosition EXCEPT !.x = @ + dx]
       /\ UNCHANGED <<filledField, currentTetromino, currentTetrominoRotation,
                      currentColor, nextTetromino, nextColor, score, pause, isColorOn,
                      difficulty, gameOver, isLastMove, isFirstMove, prevRandomColor,
                      storage, history, timing, index>>

StrafeLeft == strafeTetromino(-1)

StrafeRight == strafeTetromino(1)

rotateTetromino ==
  IF pause \/ ~checkCanRotateTetromino(filledField, currentTetromino,
                   currentTetrominoRotation, currentTetrominoPosition)
  THEN UNCHANGED vars
  ELSE /\ currentTetrominoRotation' =
            getNextTetrominoRotation(currentTetromino, currentTetrominoRotation)
       /\ UNCHANGED <<filledField, currentTetromino, currentTetrominoPosition,
                      currentColor, nextTetromino, nextColor, score, pause, isColorOn,
                      difficulty, gameOver, isLastMove, isFirstMove, prevRandomColor,
                      storage, history, timing, index>>

pullFullTetromino ==
  IF pause
  THEN UNCHANGED vars
  ELSE /\ isFirstMove' = FALSE
       /\ currentTetrominoPosition' =
            PullWhilePossible(filledField, currentTetromino,
                              currentTetrominoRotation, currentTetrominoPosition)
       /\ UNCHANGED <<filledField, currentTetromino, currentTetrominoRotation,
                      currentColor, nextTetromino, nextColor, score, pause, isColorOn,
                      difficulty, gameOver, isLastMove, prevRandomColor, storage,
                      history, timing, index>>

\* game(), the logic tick, exploring at most maxLocks lock events.
\* options.addScore and options.toggle act on the options panel only.
gameOf(T, maxLocks) ==
  IF pause \/ gameOver
  THEN UNCHANGED vars
  ELSE IF checkCanPullTetromino(filledField, currentTetromino,
                                currentTetrominoRotation, currentTetrominoPosition)
  THEN /\ isLastMove' = FALSE
       /\ isFirstMove' = FALSE
       /\ currentTetrominoPosition' = [currentTetrominoPosition EXCEPT !.y = @ + 1]
       /\ pieceTicks' = "pulled"
       /\ UNCHANGED <<filledField, currentTetromino, currentTetrominoRotation,
                      currentColor, nextTetromino, nextColor, score, pause, isColorOn,
                      difficulty, gameOver, prevRandomColor, storage, locks, lastLock,
                      savedState, timing, index>>
  ELSE /\ gameOver' = IF isFirstMove THEN TRUE ELSE gameOver
       /\ pause' = IF isFirstMove THEN TRUE ELSE pause
       /\ IF ~isLastMove
          THEN /\ isLastMove' = TRUE
               /\ pieceTicks' = "blocked"
               /\ UNCHANGED <<filledField, currentTetromino, currentTetrominoPosition,
                              currentTetrominoRotation, currentColor, nextTetromino,
                              nextColor, score, isFirstMove, prevRandomColor, locks,
                              lastLock>>
          ELSE /\ locks < maxLocks
               /\ isLastMove' = FALSE
               /\ LET saved == saveTetromino(filledField, currentTetromino,
                                  currentTetrominoRotation, currentTetrominoPosition,
                                  currentColor)
                      d == destroyFilledRows(saved, score)
                  IN filledField' = d.field /\ score' = d.score
               /\ isFirstMove' = TRUE
               /\ generateNextTetromino(prevRandomColor, T)
               /\ locks' = locks + 1
               /\ lastLock' = <<[field |-> filledField,
                                 cells |-> currentTetrominoAbsoluteCoords,
                                 color |-> currentColor,
                                 score |-> score]>>
               /\ pieceTicks' = "none"
       /\ UNCHANGED <<isColorOn, difficulty, storage, savedState, timing, index>>

restartOf(T) ==
  /\ score' = 0
  /\ gameOver' = FALSE
  /\ pause' = FALSE
  /\ isFirstMove' = TRUE
  /\ \E o \in fillField(<<>>, prevRandomColor, difficulty, 0) :
       /\ filledField' = o.field
       /\ generateNextTetromino(o.prev, T)
  /\ lastLock' = <<>>
  /\ pieceTicks' = "none"
  /\ UNCHANGED <<isColorOn, difficulty, isLastMove, storage, locks, savedState,
                 timing, index>>

togglePauseAfterGameOver ==
  /\ pause' = ~pause
  /\ UNCHANGED <<filledField, currentTetromino, currentTetrominoPosition,
                 currentTetrominoRotation, currentColor, nextTetromino, nextColor,
                 score, isColorOn, difficulty, gameOver, isLastMove, isFirstMove,
                 prevRandomColor, storage, history, timing, index>>

togglePause ==
  IF gameOver
  THEN UNCHANGED vars
  ELSE /\ pause' = ~pause
       /\ UNCHANGED <<filledField, currentTetromino, currentTetrominoPosition,
                      currentTetrominoRotation, currentColor, nextTetromino, nextColor,
                      score, isColorOn, difficulty, gameOver, isLastMove, isFirstMove,
                      prevRandomColor, storage, history, timing, index>>

switchColor(on) ==
  /\ isColorOn' = on
  /\ IF on
     THEN \E run \in ColorRuns(prevRandomColor, 1 + Len(filledField)) :
            /\ currentColor' = run[1]
            /\ filledField' = [i \in DOMAIN filledField |->
                                 [filledField[i] EXCEPT !.color = run[i + 1]]]
            /\ prevRandomColor' = LastColor(prevRandomColor, run)
     ELSE /\ currentColor' = DEFAULT_COLOR
          /\ filledField' = [i \in DOMAIN filledField |->
                               [filledField[i] EXCEPT !.color = DEFAULT_COLOR]]
          /\ UNCHANGED prevRandomColor
  /\ UNCHANGED <<currentTetromino, currentTetrominoPosition, currentTetrominoRotation,
                 nextTetromino, nextColor, score, pause, difficulty, gameOver,
                 isLastMove, isFirstMove, storage, history, timing, index>>

SwitchColor == \E on \in BOOLEAN : switchColor(on)

\* this.game.difficulty = value
SetDifficultyTo(value) ==
  /\ difficulty' = setDifficulty(value)
  /\ UNCHANGED <<filledField, currentTetromino, currentTetrominoPosition,
                 currentTetrominoRotation, currentColor, nextTetromino, nextColor,
                 score, pause, isColorOn, gameOver, isLastMove, isFirstMove,
                 prevRandomColor, storage, history, timing, index>>

\* the change handler of the difficulty input (Options.ts lines 37-41)
SetDifficulty == \E value \in DifficultyInputs : SetDifficultyTo(value)

\* the values Number(input.value) hands to the setter: NaN and every integer
\* and every integer and a half from below the range to above it
AllDifficultyInputs ==
  {[nan |-> TRUE, n |-> 0, half |-> FALSE]} \cup
  {[nan |-> FALSE, n |-> v, half |-> h] : v \in (-2)..(DIFFICULTY_MAX + 2), h \in BOOLEAN}

SetAnyDifficulty == \E value \in AllDifficultyInputs : SetDifficultyTo(value)

\* changeSpeedCallback without Math.max(newTime, TIME_END)
changeSpeedCallbackUnfloored ==
  /\ interval' = IF ~isSpeedChanging
                 THEN TIME_START
                 ELSE (interval * TimeModNum) \div TimeModDen
  /\ UNCHANGED <<engine, prevRandomColor, storage, history, isSpeedChanging, index>>

\* changeSpeedCallback, fired by the clock every TIME_MOD_FREQ ms;
\* Math.floor(interval * 0.95) equals (interval * 19) \div 20 on the integers
\* an interval takes, the double product being exact at the multiples of 20
changeSpeedCallback ==
  /\ interval' = IF ~isSpeedChanging
                 THEN TIME_START
                 ELSE IF (interval * TimeModNum) \div TimeModDen > TIME_END
                      THEN (interval * TimeModNum) \div TimeModDen
                      ELSE TIME_END
  /\ UNCHANGED <<engine, prevRandomColor, storage, history, isSpeedChanging, index>>

\* the change handler of the speed checkbox (Options.ts lines 30-32)
SetSpeedChanging ==
  /\ isSpeedChanging' \in BOOLEAN
  /\ UNCHANGED <<engine, prevRandomColor, storage, history, interval, index>>

\* JSON.stringify writes the value of a field, not a reference to it: a piece
\* is stored as its table of rotation states (Tetromino is the array of the
\* rotations' cells), integers, strings, arrays and objects of these as they are.
JSONStringify(toSave) ==
  [toSave EXCEPT !.currentTetromino.tetromino = TETROMINOES[@],
                 !.nextTetromino.tetromino = TETROMINOES[@]]

\* the piece of the catalog that a parsed table of rotation states is equal to
TetrominoOf(table) == CHOOSE t \in DOMAIN TETROMINOES : TETROMINOES[t] = table

\* JSON.parse builds the value the document describes
JSONParse(loadString) ==
  [loadString EXCEPT !.currentTetromino.tetromino = TetrominoOf(@),
                     !.nextTetromino.tetromino = TetrominoOf(@)]

\* the object save() builds, lines 518-531
toSave ==
  [currentTetromino |->
     [tetromino |-> currentTetromino,
      rotation |-> currentTetrominoRotation,
      position |-> currentTetrominoPosition,
      color |-> currentColor],
   nextTetromino |-> [tetromino |-> nextTetromino, color |-> nextColor],
   filledField |-> filledField,
   score |-> score]

\* save() storing the piece without its rotation state
saveWithoutRotation ==
  /\ storage' = <<JSONStringify([toSave EXCEPT
                                   !.currentTetromino.rotation = FirstRotation])>>
  /\ savedState' = <<toSave>>
  /\ UNCHANGED <<engine, prevRandomColor, locks, lastLock, pieceTicks, timing, index>>

\* save(): localStorage.setItem(SAVE_AND_LOAD_KEY, JSON.stringify(toSave))
save ==
  /\ storage' = <<JSONStringify(toSave)>>
  /\ savedState' = <<toSave>>
  /\ UNCHANGED <<engine, prevRandomColor, locks, lastLock, pieceTicks, timing, index>>

\* load() without line 551, this.score = toLoad.score
loadWithoutScore ==
  IF storage = NoItem
  THEN UNCHANGED vars
  ELSE LET toLoad == JSONParse(storage[1])
       IN /\ filledField' = toLoad.filledField
          /\ currentTetromino' = toLoad.currentTetromino.tetromino
          /\ currentTetrominoRotation' = toLoad.currentTetromino.rotation
          /\ currentTetrominoPosition' = toLoad.currentTetromino.position
          /\ currentColor' = toLoad.currentTetromino.color
          /\ nextTetromino' = toLoad.nextTetromino.tetromino
          /\ nextColor' = toLoad.nextTetromino.color
          /\ UNCHANGED <<score, pause, isColorOn, difficulty, gameOver, isLastMove,
                         isFirstMove, prevRandomColor, storage, history, timing, index>>

\* load(): the saved piece, next piece, field and score, when an item is stored
load ==
  IF storage = NoItem
  THEN UNCHANGED vars
  ELSE LET toLoad == JSONParse(storage[1])
       IN /\ filledField' = toLoad.filledField
          /\ currentTetromino' = toLoad.currentTetromino.tetromino
          /\ currentTetrominoRotation' = toLoad.currentTetromino.rotation
          /\ currentTetrominoPosition' = toLoad.currentTetromino.position
          /\ currentColor' = toLoad.currentTetromino.color
          /\ nextTetromino' = toLoad.nextTetromino.tetromino
          /\ nextColor' = toLoad.nextTetromino.color
          /\ score' = toLoad.score
          /\ UNCHANGED <<pause, isColorOn, difficulty, gameOver, isLastMove,
                         isFirstMove, prevRandomColor, storage, history, timing, index>>

\* ---------------------------------------------------------- specifications

Init == InitOf(TypeDraws)

game == gameOf(TypeDraws, MaxLocks)

restart == restartOf(TypeDraws)

\* the player's intents, the logic tick and the options panel
Next ==
  \/ game
  \/ StrafeLeft
  \/ StrafeRight
  \/ rotateTetromino
  \/ pullFullTetromino
  \/ togglePause
  \/ restart
  \/ SwitchColor

Spec == Init /\ [][Next]_vars

\* Next, and the difficulty input
NextOptions ==
  \/ Next
  \/ SetDifficulty

SpecOptions == Init /\ [][NextOptions]_vars

\* the same game with save and load, on a narrower run of pieces
PersistTypeDraws == {TypeOrder[i] : i \in 1..NumPersistTypes}

InitPersist == InitOf(PersistTypeDraws)

gamePersist == gameOf(PersistTypeDraws, MaxPersistLocks)

restartPersist == restartOf(PersistTypeDraws)

NextPersist ==
  \/ gamePersist
  \/ StrafeLeft
  \/ StrafeRight
  \/ rotateTetromino
  \/ pullFullTetromino
  \/ togglePause
  \/ restartPersist
  \/ SwitchColor
  \/ save
  \/ load

SpecPersist == InitPersist /\ [][NextPersist]_vars

\* getNextRandomColor, one iteration of its loop at a time.
\* do { index = Math.floor(Math.random() * colorKeys.length) }: the body runs on
\* entry and again whenever the loop condition prevRandomColor === colorKeys[index]
\* holds; every index of the palette can be drawn.
DrawIndex(i) ==
  /\ IF index = NoIndex THEN TRUE ELSE prevRandomColor = colorKeys[index + 1]
  /\ index' = i
  /\ UNCHANGED <<engine, prevRandomColor, storage, history, timing>>

\* leaving the loop at once, whatever was drawn
ReturnColorWithoutRetry ==
  /\ index # NoIndex
  /\ prevRandomColor' = colorKeys[index + 1]
  /\ index' = NoIndex
  /\ UNCHANGED <<engine, storage, history, timing>>

\* while (prevRandomColor === colorKeys[index]) is false:
\* return (prevRandomColor = colorKeys[index])
ReturnColor ==
  /\ index # NoIndex
  /\ prevRandomColor # colorKeys[index + 1]
  /\ prevRandomColor' = colorKeys[index + 1]
  /\ index' = NoIndex
  /\ UNCHANGED <<engine, storage, history, timing>>

DrawAnyIndex == \E i \in 0..(Len(colorKeys) - 1) : DrawIndex(i)

NextColor ==
  \/ DrawAnyIndex
  \/ ReturnColor

SpecColor == Init /\ [][NextColor]_vars

\* Math.random is fair: a loop that keeps drawing draws every index in the end;
\* a loop whose condition is false returns.
SpecColorFair ==
  /\ SpecColor
  /\ WF_vars(ReturnColor)
  /\ \A i \in 0..(Len(colorKeys) - 1) : SF_vars(index # NoIndex /\ DrawIndex(i))

\* restarts at every difficulty the input can give up to MaxDifficultyInput and
\* a half, whole or not, between hard drops and ticks
FillDifficultyInputs ==
  {[nan |-> FALSE, n |-> -1, half |-> FALSE]} \cup
  {[nan |-> FALSE, n |-> v, half |-> h] : v \in 0..MaxDifficultyInput, h \in BOOLEAN}

SetFillDifficulty == \E value \in FillDifficultyInputs : SetDifficultyTo(value)

gameFill == gameOf(TypeDraws, 1)

NextFill ==
  \/ restart
  \/ SetFillDifficulty
  \/ pullFullTetromino
  \/ gameFill

SpecFill == Init /\ [][NextFill]_vars

\* games of the pieces I and T, moved, dropped and locked up to the spawn row
TopTypeDraws == {"I", "T"}

InitTop == InitOf(TopTypeDraws)

gameTop == gameOf(TopTypeDraws, MaxTopLocks)

NextTop ==
  \/ gameTop
  \/ StrafeLeft
  \/ StrafeRight
  \/ rotateTetromino
  \/ pullFullTetromino

SpecTop == InitTop /\ [][NextTop]_vars

\* saving and loading between moves and ticks of games that draw several pieces
RoundTypeDraws == {TypeOrder[i] : i \in 1..NumRoundTypes}

InitRound == InitOf(RoundTypeDraws)

gameRound == gameOf(RoundTypeDraws, MaxRoundLocks)

NextRound ==
  \/ gameRound
  \/ StrafeLeft
  \/ StrafeRight
  \/ rotateTetromino
  \/ pullFullTetromino
  \/ save
  \/ load

SpecRound == InitRound /\ [][NextRound]_vars

\* the speed of the tick, with the pause and the strafes
NextSpeed ==
  \/ changeSpeedCallback
  \/ SetSpeedChanging
  \/ togglePause
  \/ StrafeLeft
  \/ StrafeRight

SpecSpeed == Init /\ [][NextSpeed]_vars

\* the difficulty setter on every input, with the pause and the strafes
NextDifficulty ==
  \/ SetAnyDifficulty
  \/ togglePause
  \/ StrafeLeft
  \/ StrafeRight

SpecDifficulty == Init /\ [][NextDifficulty]_vars

\* the lock tick and the row clear as functions of their inputs: every field
\* of the grid, every piece at rest on it

\* the colours of the cells of a drawn field
PatternColor(x, y) ==
  IF (x + y) % 2 = 0 THEN colorKeys[Len(colorKeys)] ELSE colorKeys[Len(colorKeys) - 1]

\* the cells at the columns cols of row y, in ascending x
RowCells(cols, y) ==
  [i \in 1..Cardinality(cols) |->
     [x |-> Ascending(cols)[i], y |-> y, color |-> PatternColor(Ascending(cols)[i], y)]]

\* the field with the columns rows[y] filled in each row y of lo..hi, top row first
RECURSIVE FieldOfRows(_, _, _)
FieldOfRows(rows, lo, hi) ==
  IF lo > hi THEN <<>>
  ELSE RowCells(rows[lo], lo) \o FieldOfRows(rows, lo + 1, hi)

Columns == 0..(GRID_WIDTH - 1)

\* the cells a row of the grid holds in a drawn field: none, or all but 1 to
\* MaxRowGaps of its columns
RowPatterns ==
  {cols \in SUBSET Columns :
     cols = {} \/ GRID_WIDTH - Cardinality(cols) \in 1..MaxRowGaps}

\* the rows of the grid in a drawn field
LockRows == [0..(GRID_HEIGHT - 1) -> RowPatterns]

\* the cells a drawn field holds in the row above the grid: at most
\* MaxAboveCells, and only over a stack that fills all but one cell of every
\* row of the grid
AboveRows(rows) ==
  IF \A y \in 0..(GRID_HEIGHT - 1) : Cardinality(rows[y]) = GRID_WIDTH - 1
  THEN {cols \in SUBSET Columns : Cardinality(cols) <= MaxAboveCells}
  ELSE {{}}

\* every cell of the placement is inside the walls and the floor, on no field cell
Legal(f, t, r, p) ==
  LET cells == AbsoluteCoords(t, r, p)
  IN \A i \in 1..4 :
       /\ cells[i].x >= 0
       /\ cells[i].x < GRID_WIDTH
       /\ cells[i].y < GRID_HEIGHT
       /\ ~Filled(f, cells[i].x, cells[i].y)

\* a piece at rest on a drawn field, its lock pending (game(), lines 506-507)
InitLock ==
  /\ \E rows \in LockRows : \E above \in AboveRows(rows) :
       filledField = RowCells(above, -1) \o FieldOfRows(rows, 0, GRID_HEIGHT - 1)
  /\ currentTetromino \in TypeDraws
  /\ currentTetrominoRotation \in 0..(Len(TETROMINOES[currentTetromino]) - 1)
  /\ currentTetrominoPosition \in [x : Columns, y : (-1)..(GRID_HEIGHT - 1)]
  /\ Legal(filledField, currentTetromino, currentTetrominoRotation,
           currentTetrominoPosition)
  /\ ~checkCanPullTetromino(filledField, currentTetromino, currentTetrominoRotation,
                            currentTetrominoPosition)
  /\ currentColor = colorKeys[Len(colorKeys) - 1]
  /\ nextTetromino = TypeOrder[1]
  /\ nextColor = colorKeys[Len(colorKeys)]
  /\ prevRandomColor = nextColor
  /\ score = 100
  /\ pause = FALSE
  /\ isColorOn = TRUE
  /\ difficulty = Whole(0)
  /\ gameOver = FALSE
  /\ isLastMove = TRUE
  /\ isFirstMove = FALSE
  /\ storage = NoItem
  /\ InitTiming
  /\ index = NoIndex
  /\ locks = 0
  /\ lastLock = <<>>
  /\ pieceTicks = "blocked"
  /\ savedState = <<>>

\* the tick that locks
gameLock == locks = 0 /\ gameOf({TypeOrder[1]}, 1)

SpecLock == InitLock /\ [][gameLock]_vars

\* destroyFilledRows() on every field of the grid, full rows included
InitClear ==
  /\ \E rows \in [0..(GRID_HEIGHT - 1) -> SUBSET Columns] :
       filledField = FieldOfRows(rows, 0, GRID_HEIGHT - 1)
  /\ currentTetromino = TypeOrder[1]
  /\ currentTetrominoRotation = FirstRotation
  /\ currentTetrominoPosition = INITIAL_TETROMINO_POSITION
  /\ currentColor = colorKeys[Len(colorKeys) - 1]
  /\ nextTetromino = TypeOrder[1]
  /\ nextColor = colorKeys[Len(colorKeys)]
  /\ prevRandomColor = nextColor
  /\ score = 0
  /\ pause = FALSE
  /\ isColorOn = TRUE
  /\ difficulty = Whole(0)
  /\ gameOver = FALSE
  /\ isLastMove = FALSE
  /\ isFirstMove = TRUE
  /\ storage = NoItem
  /\ InitTiming
  /\ index = NoIndex
  /\ locks = 0
  /\ lastLock = <<>>
  /\ pieceTicks = "none"
  /\ savedState = <<>>

DestroyFilledRows ==
  /\ filledField' = destroyFilledRows(filledField, score).field
  /\ score' = destroyFilledRows(filledField, score).score
  /\ UNCHANGED <<currentTetromino, currentTetrominoPosition, currentTetrominoRotation,
                 currentColor, nextTetromino, nextColor, pause, isColorOn, difficulty,
                 gameOver, isLastMove, isFirstMove, prevRandomColor, storage, history,
                 timing, index>>

SpecClear == InitClear /\ [][DestroyFilledRows]_vars

\* the moves as functions of their inputs: every piece type in every pose
\* inside the walls and the floor, over every field of at most MaxMoveCells cells

\* the cell with index k, counting the rows from y = -1 down, left to right
CellAt(k) ==
  [x |-> k % GRID_WIDTH, y |-> (k \div GRID_WIDTH) - 1,
   color |-> PatternColor(k % GRID_WIDTH, (k \div GRID_WIDTH) - 1)]

\* the fields of at most n cells, all with an index of lo or more, in index order
RECURSIVE FieldsFrom(_, _)
FieldsFrom(lo, n) ==
  IF n = 0 THEN {<<>>}
  ELSE {<<>>} \cup UNION {{<<CellAt(k)>> \o rest : rest \in FieldsFrom(k + 1, n - 1)} :
                            k \in lo..(GRID_WIDTH * (GRID_HEIGHT + 1) - 1)}

\* every cell of the placement is inside the walls and above the floor
InsideGrid(t, r, p) ==
  \A i \in 1..4 :
    /\ AbsoluteCoords(t, r, p)[i].x \in Columns
    /\ AbsoluteCoords(t, r, p)[i].y < GRID_HEIGHT

InitMove ==
  /\ filledField \in FieldsFrom(0, MaxMoveCells)
  /\ currentTetromino \in {TypeOrder[i] : i \in DOMAIN TypeOrder}
  /\ currentTetrominoRotation \in 0..(Len(TETROMINOES[currentTetromino]) - 1)
  /\ currentTetrominoPosition \in [x : Columns, y : (-1)..(GRID_HEIGHT - 1)]
  /\ InsideGrid(currentTetromino, currentTetrominoRotation, currentTetrominoPosition)
  /\ currentColor = colorKeys[Len(colorKeys) - 1]
  /\ nextTetromino = TypeOrder[1]
  /\ nextColor = colorKeys[Len(colorKeys)]
  /\ prevRandomColor = nextColor
  /\ score = 0
  /\ pause \in BOOLEAN
  /\ isColorOn = TRUE
  /\ difficulty = Whole(0)
  /\ gameOver = FALSE
  /\ isLastMove = FALSE
  /\ isFirstMove = FALSE
  /\ storage = NoItem
  /\ InitTiming
  /\ index = NoIndex
  /\ locks = 0
  /\ lastLock = <<>>
  /\ pieceTicks = "pulled"
  /\ savedState = <<>>

NextMove ==
  \/ StrafeLeft
  \/ StrafeRight
  \/ rotateTetromino

SpecMove == InitMove /\ [][NextMove]_vars

\* ------------------------------------------------------------------ claims

\* a step that merges the active piece into the field
LockStep == locks' = locks + 1

\* the piece's spawn pose shares a coordinate with a field cell
SpawnPoseOverlaps ==
  \E i \in 1..4 :
    Filled(filledField,
           AbsoluteCoords(currentTetromino, FirstRotation, INITIAL_TETROMINO_POSITION)[i].x,
           AbsoluteCoords(currentTetromino, FirstRotation, INITIAL_TETROMINO_POSITION)[i].y)

\* C1: in every reachable state no two cells of filledField share the same (x, y).
C1_NoDuplicateCells ==
  \A i, j \in DOMAIN filledField :
    i # j => ~(filledField[i].x = filledField[j].x /\ filledField[i].y = filledField[j].y)

\* C2: a piece is merged only by a tick that follows a tick on which this same
\* piece could not descend: the first blocked tick of a piece never merges it.
C2_GraceTickBeforeLock == [][LockStep => pieceTicks = "blocked"]_vars

\* C3: the first tick of a piece whose spawn pose overlaps the field ends the
\* game, whatever the player did since the spawn.
C3_SpawnOverlapEndsGame ==
  [][(game /\ ~pause /\ ~gameOver /\ pieceTicks = "none" /\ SpawnPoseOverlaps)
       => gameOver']_vars

\* C4: while the game is paused or over, the logic tick and the intents
\* move-left, move-right, rotate and hard-drop change neither the active piece,
\* the field, the score nor the lock flags.
C4_NoOpsWhilePausedOrOver ==
  [][((pause \/ gameOver)
        /\ (game \/ StrafeLeft \/ StrafeRight \/ rotateTetromino \/ pullFullTetromino))
       => UNCHANGED <<currentTetromino, currentTetrominoRotation,
                      currentTetrominoPosition, currentColor, filledField, score,
                      isFirstMove, isLastMove>>]_vars

\* C4 witness: the game is paused, not over, with the piece free to descend,
\* to move right and to rotate
C4_Witness ==
  /\ pause /\ ~gameOver
  /\ checkCanPullTetromino(filledField, currentTetromino, currentTetrominoRotation,
                           currentTetrominoPosition)
  /\ checkCanStrafeTetromino(filledField, currentTetromino, currentTetrominoRotation,
                             currentTetrominoPosition, 1)
  /\ checkCanRotateTetromino(filledField, currentTetromino, currentTetrominoRotation,
                             currentTetrominoPosition)

\* the cells of a field, as a set
CellSet(f) == {f[i] : i \in DOMAIN f}

\* the columns in which row y of the field f holds a cell
RowColumns(f, y) == {c.x : c \in {d \in CellSet(f) : d.y = y}}

\* the rows of the grid in which f holds a cell in every column
FullRows(f) == {y \in 0..(GRID_HEIGHT - 1) : RowColumns(f, y) = Columns}

\* the reference procedure: while a row of the grid is full, remove the
\* bottommost full row and move every cell above it down one row
RECURSIVE ReferenceClear(_, _)
ReferenceClear(f, cleared) ==
  IF FullRows(f) = {}
  THEN [field |-> f, cleared |-> cleared]
  ELSE LET r == CHOOSE y \in FullRows(f) : \A z \in FullRows(f) : z <= y
           kept == SelectSeq(f, LAMBDA c : c.y # r)
       IN ReferenceClear([i \in DOMAIN kept |->
                            [x |-> kept[i].x,
                             y |-> IF kept[i].y < r THEN kept[i].y + 1 ELSE kept[i].y,
                             color |-> kept[i].color]],
                         cleared + 1)

\* the score table of the spec: the delta for n rows cleared by one lock
ScoreTable(n) ==
  CASE n = 1 -> 40
    [] n = 2 -> 100
    [] n = 3 -> 300
    [] n = 4 -> 1200
    [] OTHER -> 0

\* C5: on every field whose cells lie in the grid, whatever rows are full,
\* destroyFilledRows leaves the field the reference procedure leaves and
\* destroys as many rows as the reference clears (the count it keeps, and the
\* score it adds for that count).
C5_ClearMatchesBottomUpReference ==
  [][/\ filledField' = ReferenceClear(filledField, 0).field
     /\ destroyFilledRows(filledField, score).destroyedRows
          = ReferenceClear(filledField, 0).cleared
     /\ score' = score + ScoreTable(ReferenceClear(filledField, 0).cleared)]_vars

\* C5 witness: two rows were destroyed and a cell that was above them lies in
\* the bottom row
C5_Witness ==
  /\ score = 100
  /\ \E i \in DOMAIN filledField : filledField[i].y = GRID_HEIGHT - 1
  /\ \E i \in DOMAIN filledField : filledField[i].y = GRID_HEIGHT - 2

\* the field when the active piece locks: the cells of the piece, tagged with
\* its colour, after the cells of the field
FieldAtLock ==
  filledField \o [i \in 1..4 |-> [x |-> currentTetrominoAbsoluteCoords[i].x,
                                  y |-> currentTetrominoAbsoluteCoords[i].y,
                                  color |-> currentColor]]

\* the same field at the last lock event, from the history
FieldAtLastLock ==
  lastLock[1].field \o [i \in 1..4 |-> [x |-> lastLock[1].cells[i].x,
                                        y |-> lastLock[1].cells[i].y,
                                        color |-> lastLock[1].color]]

\* C6: when a lock clears the single full row r, the cells of row r are
\* removed, every other cell with y < r ends at (x, y + 1) with its colour,
\* every cell with y > r stays, and the score grows by exactly 40.
C6_SingleRowClearShiftsAbove ==
  [][\A r \in 0..(GRID_HEIGHT - 1) :
       (LockStep /\ FullRows(FieldAtLock) = {r}) =>
         /\ CellSet(filledField') =
              {[c EXCEPT !.y = IF c.y < r THEN c.y + 1 ELSE c.y] :
                 c \in {d \in CellSet(FieldAtLock) : d.y # r}}
         /\ Len(filledField') = Len(FieldAtLock) - GRID_WIDTH
         /\ score' = score + 40]_vars

\* C6 witness: a lock cleared one row that had cells above it and below it
C6_Witness ==
  /\ lastLock # <<>>
  /\ score = lastLock[1].score + 40
  /\ \E r \in 0..(GRID_HEIGHT - 1) :
       /\ FullRows(FieldAtLastLock) = {r}
       /\ \E c \in CellSet(FieldAtLastLock) : c.y < r
       /\ \E c \in CellSet(FieldAtLastLock) : c.y > r

\* the bottom four rows of the grid
BottomFour == (GRID_HEIGHT - 4)..(GRID_HEIGHT - 1)

\* the bottom four rows of the field f lack the column col and nothing else,
\* and the cells fill that column in exactly those rows
FillsBottomFour(f, cells, col) ==
  /\ \A y \in BottomFour : RowColumns(f, y) = Columns \ {col}
  /\ {<<cells[i].x, cells[i].y>> : i \in 1..4} = {<<col, y>> : y \in BottomFour}

\* C7: when the bottom four rows lack one and the same column and the piece
\* that locks fills that column in exactly those rows, the field after the
\* lock tick holds the cells that were above those rows, each four rows
\* lower, and nothing else, and the score has grown by exactly 1200.
C7_FourRowClear ==
  [][\A col \in Columns :
       (LockStep /\ FillsBottomFour(filledField, currentTetrominoAbsoluteCoords, col)) =>
         /\ CellSet(filledField') =
              {[c EXCEPT !.y = @ + 4] :
                 c \in {d \in CellSet(filledField) : d.y < GRID_HEIGHT - 4}}
         /\ Len(filledField') = Len(filledField) - 4 * (GRID_WIDTH - 1)
         /\ score' = score + 1200]_vars

\* C7 witness: a lock cleared the bottom four rows under a cell, which now
\* lies four rows lower
C7_Witness ==
  /\ lastLock # <<>>
  /\ \E col \in Columns : FillsBottomFour(lastLock[1].field, lastLock[1].cells, col)
  /\ \E c \in CellSet(lastLock[1].field) :
       c.y < GRID_HEIGHT - 4 /\ [c EXCEPT !.y = @ + 4] \in CellSet(filledField)
  /\ score = lastLock[1].score + 1200

\* C8: a lock event that completes n rows of the grid, n in 0..4, removes the
\* cells of n rows and adds to the score the table value of n, once.
C8_ScoreTablePerLock ==
  [][LockStep =>
       /\ Cardinality(FullRows(FieldAtLock)) \in 0..4
       /\ Len(filledField') =
            Len(FieldAtLock) - GRID_WIDTH * Cardinality(FullRows(FieldAtLock))
       /\ score' = score + ScoreTable(Cardinality(FullRows(FieldAtLock)))]_vars

\* C8 witness: one lock cleared three rows and added 300
C8_Witness ==
  /\ lastLock # <<>>
  /\ Cardinality(FullRows(FieldAtLastLock)) = 3
  /\ score = lastLock[1].score + 300

\* C9 as stated: the score changes only in a lock tick, which raises it, and
\* in restart, which sets it to 0; load among the others leaves it unchanged.
C9_ScoreOnlyByClearOrRestart ==
  [][score' # score =>
       \/ LockStep /\ score' > score
       \/ restartPersist /\ score' = 0]_vars

\* C9 amended: the score changes only in a lock tick, which raises it, in
\* restart, which sets it to 0, and in load, which sets it to the saved score.
C9_ScoreByClearRestartOrLoad ==
  [][/\ (load /\ storage # NoItem) => score' = storage[1].score
     /\ score' # score =>
          \/ LockStep /\ score' > score
          \/ restartPersist /\ score' = 0
          \/ load /\ storage # NoItem]_vars

\* C9 witness: since the last restart no piece was locked, and the score is
\* the saved score, above 0: load has set it
C9_Witness ==
  /\ storage # NoItem
  /\ lastLock = <<>>
  /\ score > 0
  /\ score = storage[1].score

\* C10: when a piece locks and no row of the grid is full with it, the field
\* after the lock tick is the old field followed by the four cells of the
\* piece in its colour, and the score is unchanged.
C10_LockWithoutClear ==
  [][(LockStep /\ FullRows(FieldAtLock) = {}) =>
       /\ filledField' = FieldAtLock
       /\ Len(filledField') = Len(filledField) + 4
       /\ \A i \in DOMAIN filledField : filledField'[i] = filledField[i]
       /\ score' = score]_vars

\* C10 witness: a piece was locked onto a field with cells, no row was
\* cleared, and the four cells of the piece end the field in its colour
C10_Witness ==
  /\ lastLock # <<>>
  /\ lastLock[1].field # <<>>
  /\ FullRows(FieldAtLastLock) = {}
  /\ filledField = FieldAtLastLock
  /\ score = lastLock[1].score

\* C11: in every reachable state every absolute cell of the active piece and
\* every cell of the field has 0 <= x < GRID_WIDTH and y < GRID_HEIGHT.
C11_CellsInBounds ==
  /\ \A i \in 1..4 :
       /\ currentTetrominoAbsoluteCoords[i].x >= 0
       /\ currentTetrominoAbsoluteCoords[i].x < GRID_WIDTH
       /\ currentTetrominoAbsoluteCoords[i].y < GRID_HEIGHT
  /\ \A i \in DOMAIN filledField :
       /\ filledField[i].x >= 0
       /\ filledField[i].x < GRID_WIDTH
       /\ filledField[i].y < GRID_HEIGHT

\* C11 witness: a piece was locked against the right wall on the floor, and
\* the active piece touches the left wall with a cell against the floor
C11_Witness ==
  /\ \E i \in DOMAIN filledField :
       filledField[i].x = GRID_WIDTH - 1 /\ filledField[i].y = GRID_HEIGHT - 1
  /\ \E i \in 1..4 : currentTetrominoAbsoluteCoords[i].x = 0
  /\ \E i \in 1..4 : currentTetrominoAbsoluteCoords[i].y = GRID_HEIGHT - 1

\* the cells of the active piece in its next rotation state, or moved dx columns
RotatedCells ==
  [i \in 1..4 |->
     [x |-> TETROMINOES[currentTetromino][
              ((currentTetrominoRotation + 1) % Len(TETROMINOES[currentTetromino])) + 1][i].x
            + currentTetrominoPosition.x,
      y |-> TETROMINOES[currentTetromino][
              ((currentTetrominoRotation + 1) % Len(TETROMINOES[currentTetromino])) + 1][i].y
            + currentTetrominoPosition.y]]

\* the four cells are inside the walls and above the floor and on no field cell
CellsLegal(cells) ==
  \A i \in 1..4 :
    /\ cells[i].x >= 0
    /\ cells[i].x < GRID_WIDTH
    /\ cells[i].y < GRID_HEIGHT
    /\ \A j \in DOMAIN filledField :
         ~(filledField[j].x = cells[i].x /\ filledField[j].y = cells[i].y)

\* everything but the rotation of the active piece
allButRotation ==
  <<filledField, currentTetromino, currentTetrominoPosition, currentColor,
    nextTetromino, nextColor, score, pause, isColorOn, difficulty, gameOver,
    isLastMove, isFirstMove, prevRandomColor, storage, history, timing, index>>

\* C12: in Playing, rotate sets the rotation to (current + 1) mod the number
\* of rotation states and changes nothing else when every cell of the rotated
\* shape at the unchanged position is inside the walls, above the floor and on
\* no field cell; otherwise it changes nothing. It does nothing else.
C12_RotateWithoutKick ==
  (~pause /\ ~gameOver) =>
    IF CellsLegal(RotatedCells)
    THEN /\ ENABLED (/\ rotateTetromino
                     /\ currentTetrominoRotation' =
                          (currentTetrominoRotation + 1) % Len(TETROMINOES[currentTetromino])
                     /\ UNCHANGED allButRotation)
         /\ ~ ENABLED (/\ rotateTetromino
                       /\ ~(/\ currentTetrominoRotation' =
                                 (currentTetrominoRotation + 1)
                                   % Len(TETROMINOES[currentTetromino])
                            /\ UNCHANGED allButRotation))
    ELSE ~ ENABLED (rotateTetromino /\ ~ UNCHANGED vars)

\* C12 witness: in Playing an L stands inside the grid next to a field cell
\* on which its next rotation state, itself inside the grid, would lie
C12_Witness ==
  /\ ~pause
  /\ currentTetromino = "L"
  /\ ~ CellsLegal(RotatedCells)
  /\ \A i \in 1..4 : RotatedCells[i].x \in Columns /\ RotatedCells[i].y < GRID_HEIGHT

\* the cells of the active piece moved dx columns
MovedCells(dx) ==
  [i \in 1..4 |->
     [x |-> TETROMINOES[currentTetromino][currentTetrominoRotation + 1][i].x
            + currentTetrominoPosition.x + dx,
      y |-> TETROMINOES[currentTetromino][currentTetrominoRotation + 1][i].y
            + currentTetrominoPosition.y]]

\* everything but the position of the active piece
allButPosition ==
  <<filledField, currentTetromino, currentTetrominoRotation, currentColor,
    nextTetromino, nextColor, score, pause, isColorOn, difficulty, gameOver,
    isLastMove, isFirstMove, prevRandomColor, storage, history, timing, index>>

\* what the claim says of the move by dx columns
MoveAsClaimed(dx, strafe) ==
  IF CellsLegal(MovedCells(dx))
  THEN /\ ENABLED (/\ strafe
                   /\ currentTetrominoPosition' =
                        [x |-> currentTetrominoPosition.x + dx,
                         y |-> currentTetrominoPosition.y]
                   /\ UNCHANGED allButPosition)
       /\ ~ ENABLED (/\ strafe
                     /\ ~(/\ currentTetrominoPosition' =
                               [x |-> currentTetrominoPosition.x + dx,
                                y |-> currentTetrominoPosition.y]
                          /\ UNCHANGED allButPosition))
  ELSE ~ ENABLED (strafe /\ ~ UNCHANGED vars)

\* C13: in Playing, move-left / move-right changes x by -1 / +1 and nothing
\* else when every cell of the piece moved one column is inside the walls and
\* on no field cell; otherwise it changes nothing.
C13_StrafeOneColumn ==
  (~pause /\ ~gameOver) =>
    /\ MoveAsClaimed(-1, StrafeLeft)
    /\ MoveAsClaimed(1, StrafeRight)

\* C13 witness: in Playing a piece away from the walls can move left, and a
\* field cell right of it rejects the move to the right
C13_Witness ==
  /\ ~pause
  /\ CellsLegal(MovedCells(-1))
  /\ ~ CellsLegal(MovedCells(1))
  /\ \A i \in 1..4 : MovedCells(1)[i].x < GRID_WIDTH

\* max(150, floor(interval * 0.95))
DecayedInterval ==
  IF (interval * 95) \div 100 > 150 THEN (interval * 95) \div 100 ELSE 150

\* C14: every firing of the speed window while acceleration is enabled sets
\* the interval to max(150, floor(interval * 0.95)), which is not above the
\* interval before it and not below 150.
C14_SpeedMonotone ==
  [][(changeSpeedCallback /\ isSpeedChanging) =>
       /\ interval' = DecayedInterval
       /\ interval' <= interval
       /\ interval' >= 150]_vars

\* C14 witness: with acceleration enabled the interval has decayed to the floor
C14_Witness == isSpeedChanging /\ interval = 150

\* C15: the interval is 300 at the start and whenever acceleration is
\* disabled, and lies in [150, 300] in every reachable state.
C15_IntervalBetweenEndAndStart ==
  /\ interval >= 150
  /\ interval <= 300
  /\ ~isSpeedChanging => interval = 300

\* the effective difficulty the claim gives for an input
ClampedDifficulty(value) ==
  IF ~value.nan /\ (value.n \in 0..9 \/ (value.n = 10 /\ ~value.half))
  THEN [n |-> value.n, half |-> value.half]
  ELSE Whole(0)

\* a number of [0, 10]
InDifficultyRange(d) == d.n \in 0..10 /\ (d.n = 10 => ~d.half)

\* C16: setting the difficulty to any value leaves an effective difficulty in
\* [0, 10]: the value itself when it is in [0, 10], 0 when it is outside the
\* range or not a number; this and nothing else.
C16_DifficultyClamp ==
  \A value \in AllDifficultyInputs :
    /\ InDifficultyRange(ClampedDifficulty(value))
    /\ ENABLED (SetDifficultyTo(value) /\ difficulty' = ClampedDifficulty(value))
    /\ ~ ENABLED (SetDifficultyTo(value) /\ difficulty' # ClampedDifficulty(value))

\* C16 witness: the difficulty is at the top of the range, from where -1, 11
\* and NaN each lead to 0
C16_Witness ==
  /\ difficulty = Whole(10)
  /\ \A value \in {[nan |-> FALSE, n |-> -1, half |-> FALSE],
                   [nan |-> FALSE, n |-> 11, half |-> FALSE],
                   [nan |-> TRUE, n |-> 0, half |-> FALSE]} :
       ENABLED (SetDifficultyTo(value) /\ difficulty' = Whole(0))

\* C17: restart, from any state, leaves the game in Playing with score 0, no
\* cell of the old field (the difficulty being 0, no cell at all), the active
\* piece at the spawn origin in its first rotation state; and the first tick
\* of that piece is the first tick of a new piece: it never merges it.
C17_RestartStartsAfresh ==
  [][/\ restart =>
          /\ ~pause' /\ ~gameOver'
          /\ score' = 0
          /\ filledField' = <<>>
          /\ currentTetrominoPosition' = INITIAL_TETROMINO_POSITION
          /\ currentTetrominoRotation' = 0
     /\ (game /\ lastLock = <<>> /\ pieceTicks = "none") => ~LockStep]_vars

allButPause ==
  <<filledField, currentTetromino, currentTetrominoPosition,
    currentTetrominoRotation, currentColor, nextTetromino, nextColor, score,
    isColorOn, difficulty, gameOver, isLastMove, isFirstMove, prevRandomColor,
    storage, history, timing, index>>

\* C18: while the game is not over, togglePause does exactly one thing: it
\* flips pause and leaves the piece, the field, the score and the lock flags
\* as they are (so two toggles in a row return to the very same state); once
\* the game is over, togglePause changes nothing, and no operation other than
\* restart makes gameOver false again.
C18_PauseMachine ==
  /\ ~gameOver =>
       /\ ENABLED (togglePause /\ pause' = ~pause /\ UNCHANGED allButPause)
       /\ ~ ENABLED (togglePause /\ ~(pause' = ~pause /\ UNCHANGED allButPause))
  /\ gameOver =>
       /\ ~ ENABLED (togglePause /\ ~ UNCHANGED vars)
       /\ ~ ENABLED (NextPersist /\ ~gameOver' /\ ~restartPersist)

\* A game paused in progress: togglePause has set pause while the field
\* already holds locked cells.
C18_Witness ==
  /\ pause /\ ~gameOver
  /\ filledField # <<>>

\* C19: while colours are disabled, the active piece and every cell of the
\* field have the default colour.
C19_ColorOffMeansDefault ==
  ~isColorOn =>
    /\ currentColor = DEFAULT_COLOR
    /\ \A i \in DOMAIN filledField : filledField[i].color = DEFAULT_COLOR

\* C20: in every state, load() restores exactly what the last save() saw: the
\* piece (type, rotation state, position, colour), the next piece (type,
\* colour), the field and the score, whatever was done in between; with no
\* item stored, load() changes nothing.
C20_RoundTrip ==
  IF storage = NoItem
  THEN /\ savedState = <<>>
       /\ ~ ENABLED (load /\ ~ UNCHANGED vars)
  ELSE /\ savedState # <<>>
       /\ ENABLED (load /\ toSave' = savedState[1])
       /\ ~ ENABLED (load /\ toSave' # savedState[1])

\* After a load that undid a lock: a piece has locked in this game, and yet
\* the field is empty and the score 0, as they were when the game was saved.
C20_Witness ==
  /\ storage # NoItem
  /\ toSave = savedState[1]
  /\ lastLock # <<>>
  /\ filledField = <<>> /\ score = 0

\* C21: the colour getNextRandomColor returns is never the colour it returned
\* the call before, and with the palette of 6 colours every call, once it has
\* entered its loop, returns under fair random draws.
C21_NoColorTwiceInARow ==
  /\ [][ReturnColor => prevRandomColor' # prevRandomColor]_vars
  /\ (index # NoIndex) ~> (index = NoIndex)

\* The loop has drawn the colour of the call before, and has to draw again;
\* that colour was itself returned by the loop.
C21_Witness ==
  /\ index # NoIndex
  /\ colorKeys[index + 1] = prevRandomColor
  /\ prevRandomColor = "Yellow"

\* the rows the piece can go down one by one: every k such that each of the
\* k steps starts from a position that checkCanPullTetromino accepts
DropDepths ==
  {k \in 0..(GRID_HEIGHT + 1) :
     \A j \in 0..(k - 1) :
       checkCanPullTetromino(filledField, currentTetromino, currentTetrominoRotation,
                             [currentTetrominoPosition EXCEPT !.y = @ + j])}

LargestDropDepth == CHOOSE k \in DropDepths : \A m \in DropDepths : m <= k

HardDropAsClaimed ==
  /\ currentTetrominoPosition' =
       [currentTetrominoPosition EXCEPT !.y = @ + LargestDropDepth]
  /\ ~ checkCanPullTetromino(filledField', currentTetromino',
                             currentTetrominoRotation', currentTetrominoPosition')
  /\ UNCHANGED <<filledField, currentTetromino, currentTetrominoRotation, currentColor,
                 nextTetromino, nextColor, score, pause, gameOver, locks, lastLock>>

\* C22: in Playing, pullFullTetromino does one thing only: it takes the piece
\* down by the largest number of rows it can go down one by one, to a place
\* where it cannot descend, and leaves its column, its rotation state, the
\* field and the score as they are: the piece is not merged.
C22_HardDrop ==
  (~pause /\ ~gameOver) =>
    /\ ENABLED (pullFullTetromino /\ HardDropAsClaimed)
    /\ ~ ENABLED (pullFullTetromino /\ ~ HardDropAsClaimed)

\* A piece taken down at least two rows onto a stack before any tick reached it.
C22_Witness ==
  /\ ~pause /\ ~gameOver
  /\ pieceTicks = "none"
  /\ currentTetrominoPosition.y >= INITIAL_TETROMINO_POSITION.y + 2
  /\ filledField # <<>>
  /\ \E i \in 1..4 : \E c \in 1..Len(filledField) :
       /\ currentTetrominoAbsoluteCoords[i].x = filledField[c].x
       /\ currentTetrominoAbsoluteCoords[i].y + 1 = filledField[c].y
  /\ ~ checkCanPullTetromino(filledField, currentTetromino, currentTetrominoRotation,
                             currentTetrominoPosition)

\* the rows the claim gives for difficulty d: the rows y of the grid with
\* GRID_HEIGHT - d <= y
ClaimedFillRows(d) == {y \in 0..(GRID_HEIGHT - 1) : GRID_HEIGHT - y <= d.n}

PrefilledAsClaimed(f, d) ==
  /\ \A c \in 1..Len(f) : f[c].y \in ClaimedFillRows(d)
  /\ \A y \in ClaimedFillRows(d) :
       /\ Cardinality({c \in 1..Len(f) : f[c].y = y}) = RANDOM_FILL_COUNT
       /\ Cardinality({f[c].x : c \in {k \in 1..Len(f) : f[k].y = y}}) = RANDOM_FILL_COUNT
       /\ RANDOM_FILL_COUNT < GRID_WIDTH

\* C23: whatever restart draws, the field it leaves has its cells in the bottom
\* d rows of the grid exactly, d the difficulty, each of these rows with
\* RANDOM_FILL_COUNT cells in as many columns, and so no row full.
C23_PrefillAtRestart ==
  ~ ENABLED (restart /\ ~ PrefilledAsClaimed(filledField', difficulty'))

C25_NoFullRowAfterTick ==
  [][gameTop =>
       /\ FullRows(filledField') = {}
       /\ (LockStep /\ Len(filledField') < Len(filledField) + 4)
            => (score' - score) \in {40, 100, 300, 1200}]_vars

====
